---- MODULE Spec2Model ----
(***************************************************************************)
(* The deployment tracking database of vibranium                           *)
(* (src/src/deployment/tracker.rs): a two-level record store,              *)
(* chain key -> contract key -> {name, address}, kept in one TOML file     *)
(* that every operation loads whole and that track rewrites whole.         *)
(*                                                                         *)
(* Strings are sequences of one-character strings, so that concatenation   *)
(* is \o.  A SHA3-256 digest is modelled as the tagged byte string it was  *)
(* computed from, i.e. as a collision-free hash.                           *)
(***************************************************************************)
EXTENDS Naturals, Sequences, FiniteSets, TLC

VARIABLES
  file,     \* the backing file tracking.toml: whether it exists, and its text
  tracker,  \* the DeploymentTracker instance in use
  last,     \* the most recent call: operation, arguments, result
  mark,     \* history: one earlier successful track call, with the keys it used
  procs,    \* concurrent callers of track: where each is in its call
  cli       \* the command line tool: the error it reported last, and its output

vars == <<file, tracker, last, mark, procs, cli>>

\* What the sequential operations of the tracker leave alone.
others == <<procs, cli>>

(***************************** input domains *******************************)

\* The DeploymentTracker instances, one per run of the tool, all built on the
\* same project Config.
Trackers == {"t1", "t2"}

\* web3 H256 block hashes and H160 addresses, as opaque values.
BlockHashes == {"h1", "h2"}
Addresses == {"A", "B"}

\* (name, byte_code, args) triples.  T1 and T2 differ only in how the
\* arguments are split; T3 is another contract.
T1 == [name |-> <<"a">>, byte_code |-> <<"b">>, args |-> << <<"a", "b">>, <<"c">> >>]
T2 == [name |-> <<"a">>, byte_code |-> <<"b">>, args |-> << <<"a">>, <<"b", "c">> >>]
T3 == [name |-> <<"a", "b">>, byte_code |-> << >>, args |-> << >>]
Contracts == {T1, T2, T3}

\* What the filesystem does to the one call that meets it.
IoOutcomes == {"ok", "create_fails", "read_fails", "write_fails"}

(******************************* results **********************************)

None == << >>
Some(x) == <<x>>
IsSome(o) == o # << >>

Ok(v) == [err |-> "Ok", val |-> v]
Err(e) == [err |-> e, val |-> << >>]
IsOk(r) == r.err = "Ok"

(***************************** key derivation ******************************)

\* Sha3_256 over a byte string.
Sha3_256(bytes) == <<"sha3", bytes>>

\* format!("0x{:x}", digest)
Hex(digest) == <<"0x", digest>>

\* args.join("")
RECURSIVE join(_)
join(args) == IF args = << >> THEN << >> ELSE Head(args) \o join(Tail(args))


\* Faulty variant: a hasher seeded per tracker instance.
create_block_hash_seeded(block_hash) == Hex(Sha3_256(<<block_hash, tracker>>))

create_block_hash(block_hash) == Hex(Sha3_256(<<block_hash>>))


\* Faulty variant: the arguments are joined with a separator.
create_smart_contract_hash_separated(name, byte_code, args) ==
  Hex(Sha3_256(name \o byte_code \o
               join([i \in 1..Len(args) |-> <<",">> \o args[i]])))

create_smart_contract_hash(name, byte_code, args) ==
  Hex(Sha3_256(name \o byte_code \o join(args)))

(************************ the TOML document (toml crate) ******************)

\* Address as its TOML string, and back (web3's hex (de)serialisation).
AddressToHex(address) == <<"0x", address>>
AddressFromHex(hex) == hex[2]
IsAddressHex(hex) == Len(hex) = 2 /\ hex[1] = "0x" /\ hex[2] \in Addresses

\* toml::Value::try_from(SmartContractTrackingDataEntry): the record as a
\* TOML table.
EntryToValue(entry) == [name |-> entry.name, address |-> AddressToHex(entry.address)]

\* Value::try_into::<SmartContractTrackingDataEntry>()
ValueToEntry(value) == [name |-> value.name, address |-> AddressFromHex(value.address)]

\* One [chain.contract] table of the text, with its two key/value lines;
\* anything else in the text is a line that is not TOML.
Section(chain, contract, value) ==
  [kind |-> "table", chain |-> chain, contract |-> contract,
   name |-> value.name, address |-> value.address]
Garbage ==
  [kind |-> "garbage", chain |-> << >>, contract |-> << >>,
   name |-> << >>, address |-> << >>]

RECURSIVE SeqOf(_)
SeqOf(S) ==
  IF S = {} THEN << >>
  ELSE LET x == CHOOSE y \in S : TRUE IN <<x>> \o SeqOf(S \ {x})

\* The (chain key, contract key) paths of a document tree.
Paths(tree) == UNION {{<<ck, k>> : k \in DOMAIN tree[ck]} : ck \in DOMAIN tree}

\* toml::to_string(&Value): one table per record, in the tree's key order.
toml_to_string(tree) ==
  LET ps == SeqOf(Paths(tree))
  IN  [i \in 1..Len(ps) |-> Section(ps[i][1], ps[i][2], tree[ps[i][1]][ps[i][2]])]

\* toml::from_str::<TrackingData>(text): fails on a line that is not TOML, on
\* a table defined twice and on an address that is no address; otherwise the
\* typed map chain key -> contract key -> entry.
toml_from_str(text) ==
  LET n == Len(text)
      bad == \/ \E i \in 1..n : text[i].kind # "table"
             \/ \E i \in 1..n : ~IsAddressHex(text[i].address)
             \/ \E i, j \in 1..n : /\ i # j
                                   /\ text[i].chain = text[j].chain
                                   /\ text[i].contract = text[j].contract
      chains == {text[i].chain : i \in 1..n}
      keys(ck) == {text[i].contract : i \in {j \in 1..n : text[j].chain = ck}}
      at(ck, k) == CHOOSE i \in 1..n : text[i].chain = ck /\ text[i].contract = k
  IN  IF bad THEN Err("Format")
      ELSE Ok([ck \in chains |->
                [k \in keys(ck) |->
                  [name |-> text[at(ck, k)].name,
                   address |-> AddressFromHex(text[at(ck, k)].address)]]])

\* toml::Value::try_from(TrackingData): the typed map as a tree of tables.
ValueFromTrackingData(data) ==
  [ck \in DOMAIN data |-> [k \in DOMAIN data[ck] |-> EntryToValue(data[ck][k])]]

\* Value::try_into::<SmartContractTrackingData>(): a chain's table as a typed
\* bucket.
ValueToBucket(value) == [k \in DOMAIN value |-> ValueToEntry(value[k])]

(********************* path queries (toml_query crate) *********************)

\* A query "chain.contract" is the sequence of its dot-separated segments;
\* the keys are hexadecimal and hold no dot.

\* read: absent if a segment is missing, never an error for absence.
read(tree, path) ==
  IF path[1] \notin DOMAIN tree THEN None
  ELSE IF Len(path) = 1 THEN Some(tree[path[1]])
  ELSE IF path[2] \notin DOMAIN tree[path[1]] THEN None
  ELSE Some(tree[path[1]][path[2]])

\* insert: builds the intermediate table as needed; fails if the final
\* segment already holds a value.
insert(tree, path, value) ==
  IF path[1] \notin DOMAIN tree
    THEN Ok((path[1] :> (path[2] :> value)) @@ tree)
  ELSE IF path[2] \in DOMAIN tree[path[1]] THEN Err("Insertion")
  ELSE Ok([tree EXCEPT ![path[1]] = (path[2] :> value) @@ @])

\* set: the parent table must exist; overwrites or creates the final segment.
set(tree, path, value) ==
  IF path[1] \notin DOMAIN tree THEN Err("Insertion")
  ELSE Ok([tree EXCEPT ![path[1]] = (path[2] :> value) @@ @])

(****************************** the file ***********************************)

Absent == [exists |-> FALSE, text |-> << >>]
Existing(text) == [exists |-> TRUE, text |-> text]

\* Every function below takes the file f it finds and the filesystem's
\* outcome io for this call.

\* Faulty variant: the path is taken to be there whatever the disk holds.
database_exists_always(f) == TRUE

database_exists(f) == f.exists


\* Faulty variant: a file that is already there is opened without being truncated.
create_database_keep(f, io) ==
  IF io = "create_fails" THEN [result |-> Err("Io"), file |-> f]
  ELSE [result |-> Ok(<< >>), file |-> Existing(f.text)]

\* fs::File::create creates the file or truncates the one that is there.
create_database(f, io) ==
  IF io = "create_fails" THEN [result |-> Err("Io"), file |-> f]
  ELSE [result |-> Ok(<< >>), file |-> Existing(<< >>)]


\* Faulty variant: the file is opened for appending instead of being truncated.
write_append(f, io, toml) ==
  IF io = "create_fails" THEN [result |-> Err("Io"), file |-> f]
  ELSE IF io = "write_fails" THEN [result |-> Err("Other"), file |-> Existing(f.text)]
  ELSE [result |-> Ok(<< >>), file |-> Existing(f.text \o toml_to_string(toml))]

\* Faulty variant: the file is opened without being truncated.
truncate_keep(f) == Existing(f.text)

\* fs::File::create in write: the file is created or truncated, and the
\* handle stands at offset 0.
truncate(f) == Existing(<< >>)

\* Faulty variant: the handle appends.
write_all_append(f, text) == Existing(f.text \o text)

\* write_all through a handle at offset 0: the text replaces what the file
\* holds from its start, and what the file holds beyond the text's length
\* stays (each table of the text is taken to fill the same room).
write_all(f, text) == Existing(text \o SubSeq(f.text, Len(text) + 1, Len(f.text)))

\* Serialises first, then truncates, then writes: a write_all that fails
\* leaves the file truncated.
write(f, io, toml) ==
  LET tracking_data == toml_to_string(toml)
  IN  IF io = "create_fails" THEN [result |-> Err("Io"), file |-> f]
      ELSE IF io = "write_fails"
        THEN [result |-> Err("Other"), file |-> truncate(f)]
      ELSE [result |-> Ok(<< >>), file |-> write_all(truncate(f), tracking_data)]

try_from_tracking_file(f, io) ==
  IF ~database_exists(f) THEN Err("DatabaseNotFound")
  ELSE IF io = "read_fails" THEN Err("Io")
  ELSE LET toml == toml_from_str(f.text)
       IN  IF ~IsOk(toml) THEN toml
           ELSE Ok(ValueFromTrackingData(toml.val))

(***************************** the tracker *********************************)


\* Faulty variant: the two segments of the query in the wrong order.
track_query_swapped(block_hash, smart_contract_hash) == <<smart_contract_hash, block_hash>>

\* format!("{}.{}", &block_hash, &smart_contract_hash)
track_query(block_hash, smart_contract_hash) == <<block_hash, smart_contract_hash>>


\* The probe that picks insert or set: the chain's table alone.
track_probe(tracking_data, block_hash) == read(tracking_data, <<block_hash>>)


\* Faulty variant: a chain's first record is inserted into a fresh document instead
\* of the loaded one.
track_upsert_fresh(tracking_data, chain_tracking_data, query, new_tracking_data) ==
  IF chain_tracking_data = None
    THEN insert(<< >>, query, new_tracking_data)
    ELSE set(tracking_data, query, new_tracking_data)

\* Faulty variant: a record that is already there is left as it is.
track_upsert_keep(tracking_data, chain_tracking_data, query, new_tracking_data) ==
  IF IsSome(read(tracking_data, query)) THEN Ok(tracking_data)
  ELSE IF chain_tracking_data = None
    THEN insert(tracking_data, query, new_tracking_data)
    ELSE set(tracking_data, query, new_tracking_data)

\* Faulty variant: insert whatever the probe found.
track_store_insert(chain_tracking_data) == "insert"

\* Faulty variant: set whatever the probe found.
track_store_set(chain_tracking_data) == "set"

\* Which of the two store operations the match arm calls.
track_store(chain_tracking_data) ==
  IF chain_tracking_data = None THEN "insert" ELSE "set"

\* Faulty variant: the record replaces the chain's table instead of joining it.
track_upsert_alone(tracking_data, chain_tracking_data, query, new_tracking_data) ==
  IF chain_tracking_data = None
    THEN insert(tracking_data, query, new_tracking_data)
    ELSE Ok([tracking_data EXCEPT ![query[1]] = (query[2] :> new_tracking_data)])

\* match chain_tracking_data { None => insert, Some(_) => set }
track_upsert(tracking_data, chain_tracking_data, query, new_tracking_data) ==
  LET r == IF track_store(chain_tracking_data) = "insert"
             THEN insert(tracking_data, query, new_tracking_data)
             ELSE set(tracking_data, query, new_tracking_data)
  IN  IF IsOk(r) THEN r ELSE Err("Insertion")

\* track up to its call of write: the document to be written, or the error
\* track returns early with.
track_modify(f, io, block_hash, name, byte_code, args, address) ==
  LET bh == create_block_hash(block_hash)
      smart_contract_hash == create_smart_contract_hash(name, byte_code, args)
      query == track_query(bh, smart_contract_hash)
      smart_contract_tracking_data == [name |-> name, address |-> address]
      tracking_data == try_from_tracking_file(f, io)
  IN  IF ~IsOk(tracking_data) THEN tracking_data
      ELSE LET chain_tracking_data == track_probe(tracking_data.val, bh)
               new_tracking_data == EntryToValue(smart_contract_tracking_data)
           IN  track_upsert(tracking_data.val, chain_tracking_data,
                            query, new_tracking_data)

track(f, io, block_hash, name, byte_code, args, address) ==
  LET stored == track_modify(f, io, block_hash, name, byte_code, args, address)
  IN  IF ~IsOk(stored) THEN [result |-> stored, file |-> f]
      ELSE write(f, io, stored.val)


\* Faulty variant: a missing record is reported as an error.
get_from_strict(tracking_data, block_hash, name, byte_code, args) ==
  LET bh == create_block_hash(block_hash)
      smart_contract_hash == create_smart_contract_hash(name, byte_code, args)
  IN  IF ~IsOk(tracking_data) THEN tracking_data
      ELSE LET contract_data == read(tracking_data.val, <<bh, smart_contract_hash>>)
           IN  IF IsSome(contract_data)
                 THEN Ok(Some(ValueToEntry(contract_data[1])))
                 ELSE Err("Serialization")

\* get_smart_contract_tracking_data, given what try_from_tracking_file
\* returned.
get_from(tracking_data, block_hash, name, byte_code, args) ==
  LET bh == create_block_hash(block_hash)
      smart_contract_hash == create_smart_contract_hash(name, byte_code, args)
  IN  IF ~IsOk(tracking_data) THEN tracking_data
      ELSE LET contract_data == read(tracking_data.val, <<bh, smart_contract_hash>>)
           IN  IF IsSome(contract_data)
                 THEN Ok(Some(ValueToEntry(contract_data[1])))
                 ELSE Ok(None)

get_smart_contract_tracking_data(f, io, block_hash, name, byte_code, args) ==
  get_from(try_from_tracking_file(f, io), block_hash, name, byte_code, args)

\* Faulty variant: a failed load is passed on, as the single-record lookup does.
get_all_from_strict(tracking_data, block_hash) ==
  LET bh == create_block_hash(block_hash)
  IN  IF ~IsOk(tracking_data) THEN tracking_data
      ELSE LET contract_data == read(tracking_data.val, <<bh>>)
           IN  IF IsSome(contract_data)
                 THEN Ok(Some(ValueToBucket(contract_data[1])))
                 ELSE Ok(None)

\* get_all_smart_contract_tracking_data, given what try_from_tracking_file
\* returned.
get_all_from(tracking_data, block_hash) ==
  LET bh == create_block_hash(block_hash)
  IN  IF ~IsOk(tracking_data) THEN Ok(None)
      ELSE LET contract_data == read(tracking_data.val, <<bh>>)
           IN  IF IsSome(contract_data)
                 THEN Ok(Some(ValueToBucket(contract_data[1])))
                 ELSE Ok(None)

get_all_smart_contract_tracking_data(f, io, block_hash) ==
  get_all_from(try_from_tracking_file(f, io), block_hash)

(************************** calls and history ******************************)

NoContract == [name |-> << >>, byte_code |-> << >>, args |-> << >>]

\* load is what try_from_tracking_file returned to the call ("-" for a call
\* that does not load the file).
Call(op, io, block_hash, contract, address, load, result) ==
  [op |-> op, io |-> io, block_hash |-> block_hash, contract |-> contract,
   address |-> address, load |-> load, result |-> result]

Constructed == Call("new", "ok", "", NoContract, "", "-", Ok(<< >>))

NoMark ==
  [set |-> FALSE, self |-> "", block_hash |-> "", contract |-> NoContract,
   address |-> "", chain_key |-> << >>, contract_key |-> << >>]

Marked(self, block_hash, contract, address) ==
  [set |-> TRUE, self |-> self, block_hash |-> block_hash, contract |-> contract,
   address |-> address, chain_key |-> create_block_hash(block_hash),
   contract_key |-> create_smart_contract_hash(contract.name, contract.byte_code,
                                               contract.args)]

\* The concurrent callers of track (processes or threads on one project).
Procs == {"p1", "p2"}

\* A caller between two calls.
Idle ==
  [pc |-> "idle", block_hash |-> "", contract |-> NoContract, address |-> "",
   seen |-> << >>, pending |-> << >>, raced |-> FALSE, result |-> Ok(<< >>)]

NoCallers == [p \in Procs |-> Idle]

\* The tool before it has reported anything.
NoReport == [error |-> [variant |-> "", error |-> ""], cause |-> None, out |-> << >>]

(******************************* actions ***********************************)

\* DeploymentTracker::new over a project that has no tracking file yet.
Init ==
  /\ file = Absent
  /\ tracker = "t1"
  /\ last = Constructed
  /\ mark = NoMark
  /\ procs = NoCallers
  /\ cli = NoReport

\* A later run of the tool builds its own tracker over the same project.
New(self) ==
  /\ self # tracker
  /\ tracker' = self
  /\ last' = Constructed
  /\ UNCHANGED <<file, mark, others>>

DatabaseExists ==
  /\ last' = Call("database_exists", "ok", "", NoContract, "", "-",
                  Ok(<<database_exists(file)>>))
  /\ UNCHANGED <<file, tracker, mark, others>>

CreateDatabase(io) ==
  LET r == create_database(file, io)
  IN  /\ file' = r.file
      /\ last' = Call("create_database", io, "", NoContract, "", "-", r.result)
      /\ UNCHANGED <<tracker, mark, others>>

Track(io, block_hash, contract, address) ==
  LET r == track(file, io, block_hash, contract.name, contract.byte_code,
                 contract.args, address)
  IN  /\ file' = r.file
      /\ last' = Call("track", io, block_hash, contract, address,
                      try_from_tracking_file(file, io).err, r.result)
      /\ mark' \in IF IsOk(r.result)
                     THEN {mark, Marked(tracker, block_hash, contract, address)}
                     ELSE {mark}
      /\ UNCHANGED <<tracker, others>>

GetRecord(io, block_hash, contract) ==
  /\ last' = Call("get", io, block_hash, contract, "",
                  try_from_tracking_file(file, io).err,
                  get_smart_contract_tracking_data(file, io, block_hash, contract.name,
                                                   contract.byte_code, contract.args))
  /\ UNCHANGED <<file, tracker, mark, others>>

\* Faulty variant: the lookup of a chain creates the file it does not find.
GetAllForChain_creating(io, block_hash) ==
  /\ last' = Call("get_all", io, block_hash, NoContract, "",
                  try_from_tracking_file(file, io).err,
                  get_all_smart_contract_tracking_data(file, io, block_hash))
  /\ file' = IF file.exists THEN file ELSE Existing(<< >>)
  /\ UNCHANGED <<tracker, mark, others>>

GetAllForChain(io, block_hash) ==
  /\ last' = Call("get_all", io, block_hash, NoContract, "",
                  try_from_tracking_file(file, io).err,
                  get_all_smart_contract_tracking_data(file, io, block_hash))
  /\ UNCHANGED <<file, tracker, mark, others>>

\* The public operations of one tracker over a filesystem that does not fail.
Next ==
  \/ DatabaseExists
  \/ CreateDatabase("ok")
  \/ \E b \in BlockHashes, c \in Contracts, a \in Addresses : Track("ok", b, c, a)
  \/ \E b \in BlockHashes, c \in Contracts : GetRecord("ok", b, c)
  \/ \E b \in BlockHashes : GetAllForChain("ok", b)

Spec == Init /\ [][Next]_vars

\* The same over several runs of the tool, each with its own tracker.
NextRuns ==
  \/ \E self \in Trackers : New(self)
  \/ DatabaseExists
  \/ CreateDatabase("ok")
  \/ \E b \in BlockHashes, c \in Contracts : Track("ok", b, c, "A")
  \/ \E b \in BlockHashes, c \in Contracts : GetRecord("ok", b, c)
  \/ \E b \in BlockHashes : GetAllForChain("ok", b)

SpecRuns == Init /\ [][NextRuns]_vars

\* The operations over a filesystem that may fail any call, on a project
\* whose tracking file, if there is one, may hold anything.
InitialFiles == {Absent, Existing(<< >>), Existing(<<Garbage>>)}

InitFault ==
  /\ file \in InitialFiles
  /\ tracker = "t1"
  /\ last = Constructed
  /\ mark = NoMark
  /\ procs = NoCallers
  /\ cli = NoReport

NextFault ==
  \E io \in IoOutcomes :
    \/ DatabaseExists
    \/ CreateDatabase(io)
    \/ \E b \in BlockHashes, c \in {T1, T3} : Track(io, b, c, "A")
    \/ \E b \in BlockHashes, c \in {T1, T3} : GetRecord(io, b, c)
    \/ \E b \in BlockHashes : GetAllForChain(io, b)

SpecFault == InitFault /\ [][NextFault]_vars

(************************ concurrent callers of track **********************)

\* track holds no lock: between its load of the file, the File::create of
\* its write and the write_all of its write, other callers take their steps.

\* The load, the change of the loaded document and its serialisation.
Load(p, block_hash, contract, address) ==
  /\ procs[p].pc = "idle"
  /\ LET stored == track_modify(file, "ok", block_hash, contract.name,
                                contract.byte_code, contract.args, address)
         racing == {q \in Procs \ {p} : procs[q].pc = "loaded"}
         called == [Idle EXCEPT !.block_hash = block_hash, !.contract = contract,
                                !.address = address]
     IN  IF ~IsOk(stored)
           THEN /\ procs' = [procs EXCEPT ![p] = [called EXCEPT !.pc = "done",
                                                                !.result = stored]]
                /\ last' = Call("track", "ok", block_hash, contract, address,
                                try_from_tracking_file(file, "ok").err, stored)
           ELSE /\ procs' =
                     [q \in Procs |->
                        IF q = p
                          THEN [called EXCEPT !.pc = "loaded", !.seen = file.text,
                                              !.pending = toml_to_string(stored.val),
                                              !.raced = (racing # {})]
                        ELSE IF q \in racing THEN [procs[q] EXCEPT !.raced = TRUE]
                        ELSE procs[q]]
                /\ last' = last
  /\ UNCHANGED <<file, tracker, mark, cli>>

\* fs::File::create of write.
Truncate(p) ==
  /\ procs[p].pc = "loaded"
  /\ file' = truncate(file)
  /\ procs' = [procs EXCEPT ![p].pc = "truncated"]
  /\ UNCHANGED <<tracker, last, mark, cli>>

\* write_all of write, and the return of Ok(()).
WriteAll(p) ==
  /\ procs[p].pc = "truncated"
  /\ file' = write_all(file, procs[p].pending)
  /\ procs' = [procs EXCEPT ![p].pc = "done", ![p].result = Ok(<< >>)]
  /\ last' = Call("track", "ok", procs[p].block_hash, procs[p].contract,
                  procs[p].address, "Ok", Ok(<< >>))
  /\ mark' \in {mark, Marked(tracker, procs[p].block_hash, procs[p].contract,
                              procs[p].address)}
  /\ UNCHANGED <<tracker, cli>>

\* The caller has its result and may call again.
Return(p) ==
  /\ procs[p].pc = "done"
  /\ procs' = [procs EXCEPT ![p] = Idle]
  /\ UNCHANGED <<file, tracker, last, mark, cli>>

\* Two callers of track on one project, next to createDatabase and the
\* lookups, on a filesystem that does not fail.
NextConc ==
  \/ CreateDatabase("ok")
  \/ \E p \in Procs, c \in {T1, T3} : Load(p, "h1", c, "A")
  \/ \E p \in Procs : Truncate(p)
  \/ \E p \in Procs : WriteAll(p)
  \/ \E p \in Procs : Return(p)
  \/ \E c \in {T1, T3} : GetRecord("ok", "h1", c)
  \/ GetAllForChain("ok", "h1")

SpecConc == Init /\ [][NextConc]_vars

(********************* the tool's error reporting (cli) *******************)

\* The errors a CliError wraps: the compiler's, among them the one for a
\* compiler without built-in support, and the TOML serialiser's.
CompilerErrors == {"UnsupportedStrategy", "ExecutableNotFound", "Io"}
SerErrors ==
  {"UnsupportedType", "KeyNotString", "KeyNewline", "ArrayMixedType",
   "ValueAfterTable", "DateInvalid", "NumberInvalid", "UnsupportedNone", "Custom"}

\* What an underlying error says of itself: Error::description, and Display.
ErrorDescription(error) == <<"description of", error>>
ErrorDisplay(error) == <<"display of", error>>

CliErrors ==
  [variant : {"CompilationError"}, error : CompilerErrors]
    \cup [variant : {"ConfigurationSetError"}, error : SerErrors]

\* The raw string of the UnsupportedStrategy arm.
Remediation ==
  <<"No built-in support for requested compiler. To use this compiler, please specify necessary OPTIONS in compile command. ...">>

\* Error::description
description(self) ==
  IF self.variant = "CompilationError"
    THEN IF self.error = "UnsupportedStrategy" THEN Remediation
         ELSE ErrorDescription(self.error)
    ELSE ErrorDescription(self.error)

\* Error::cause
cause(self) == Some(self.error)

\* Faulty variant: every variant is shown by its description.
fmt_description(self) == description(self)

\* Display::fmt
fmt(self) ==
  IF self.variant = "CompilationError" THEN description(self)
  ELSE <<"Couldn't set configuration: ">> \o ErrorDisplay(self.error)

\* How many reports the output is followed for.
MaxReports == 2

\* The tool shows an error to the user.
Report(error) ==
  /\ Len(cli.out) < MaxReports
  /\ cli' = [error |-> error, cause |-> cause(error), out |-> Append(cli.out, fmt(error))]
  /\ UNCHANGED <<file, tracker, last, mark, procs>>

NextCli == \E error \in CliErrors : Report(error)

SpecCli == Init /\ [][NextCli]_vars

(***************************************************************************)
(* Properties                                                              *)
(***************************************************************************)

\* What getRecord and getAllForChain return on the file as it is now.
GetNow(block_hash, contract) ==
  get_smart_contract_tracking_data(file, "ok", block_hash, contract.name,
                                   contract.byte_code, contract.args)
GetAllNow(block_hash) == get_all_smart_contract_tracking_data(file, "ok", block_hash)

ChainKey(block_hash) == create_block_hash(block_hash)
ContractKey(contract) ==
  create_smart_contract_hash(contract.name, contract.byte_code, contract.args)

\* The last call was a track that returned Ok(()).
Tracked == last.op = "track" /\ IsOk(last.result)

\* The marked earlier track and the last call name the same contract.
SameAsMark ==
  mark.set /\ last.block_hash = mark.block_hash /\ last.contract = mark.contract

\* C1 (round trip): after a successful track(blockHash, name, byteCode, args,
\* address), whatever was tracked before, getRecord with the same identifying
\* arguments returns Some record equal to {name, address}.
RoundTrip ==
  Tracked =>
    GetNow(last.block_hash, last.contract)
      = Ok(Some([name |-> last.contract.name, address |-> last.address]))

\* A successful track on a database that already holds another record, read
\* back.
RoundTripWitness ==
  /\ Tracked
  /\ mark.set /\ mark.contract # last.contract /\ mark.block_hash = last.block_hash
  /\ GetNow(mark.block_hash, mark.contract) # Ok(None)
  /\ ContractKey(mark.contract) # ContractKey(last.contract)
  /\ GetNow(last.block_hash, last.contract)
       = Ok(Some([name |-> last.contract.name, address |-> last.address]))

\* C2 (overwrite): when the same (blockHash, name, byteCode, args) has been
\* tracked before with another address, getRecord after the second track
\* returns the second address and not the first.
Overwrite ==
  (Tracked /\ SameAsMark /\ last.address # mark.address) =>
    LET r == GetNow(last.block_hash, last.contract)
    IN  /\ IsOk(r) /\ IsSome(r.val)
        /\ r.val[1].address = last.address
        /\ r.val[1].address # mark.address

OverwriteWitness ==
  /\ Tracked /\ SameAsMark /\ last.address # mark.address
  /\ GetNow(last.block_hash, last.contract).val[1].address = last.address

\* The tables of the file's text that share their [chain.contract] header
\* with another table.
DuplicateSections(f) ==
  {i \in 1..Len(f.text) :
     \E j \in 1..Len(f.text) :
       /\ i # j
       /\ f.text[i].chain = f.text[j].chain
       /\ f.text[i].contract = f.text[j].contract}

BucketSize(f, block_hash) ==
  LET r == get_all_smart_contract_tracking_data(f, "ok", block_hash)
  IN  IF IsSome(r.val) THEN Cardinality(DOMAIN r.val[1]) ELSE 0

\* C3 (no duplicates): a successful track leaves at most one record per
\* (chain key, contract key) in the document, and when the pair was already
\* tracked it leaves the number of entries of the chain's bucket unchanged,
\* the one entry of the pair now holding the new address.
NoDuplicates ==
  [][(last'.op = "track" /\ IsOk(last'.result)) =>
       LET b == last'.block_hash
           c == last'.contract
           before == get_smart_contract_tracking_data(file, "ok", b, c.name,
                                                      c.byte_code, c.args)
           bucket == get_all_smart_contract_tracking_data(file', "ok", b)
       IN  /\ DuplicateSections(file') = {}
           /\ IsSome(bucket.val)
           /\ IsSome(before.val) =>
                /\ BucketSize(file', b) = BucketSize(file, b)
                /\ bucket.val[1][ContractKey(c)].address = last'.address]_vars

\* Token tracked at address A and then at address B: one entry, at B.
NoDuplicatesWitness ==
  /\ Tracked /\ SameAsMark
  /\ mark.address = "A" /\ last.address = "B"
  /\ BucketSize(file, last.block_hash) = 1
  /\ GetAllNow(last.block_hash).val[1][ContractKey(last.contract)].address = "B"

\* C4 (absence distinction): while the backing file does not exist,
\* getAllForChain returns None without error, and getRecord and track fail
\* with DatabaseNotFound.
AbsenceDistinction ==
  ~file.exists =>
    /\ last.op = "get_all" => last.result = Ok(None)
    /\ last.op \in {"get", "track"} => last.result = Err("DatabaseNotFound")
    /\ \A b \in BlockHashes :
         /\ GetAllNow(b) = Ok(None)
         /\ \A c \in Contracts : GetNow(b, c) = Err("DatabaseNotFound")

AbsenceDistinctionWitness ==
  /\ ~file.exists
  /\ last.op = "get_all" /\ last.result = Ok(None)
  /\ GetNow(last.block_hash, T1) = Err("DatabaseNotFound")
  /\ track(file, "ok", last.block_hash, T1.name, T1.byte_code, T1.args, "A").result
       = Err("DatabaseNotFound")

\* C5 (error propagation): a failure of loading the document reaches the
\* caller of track, getRecord and getAllForChain unchanged, except that
\* getAllForChain turns DatabaseNotFound, and nothing else, into None.
ErrorPropagation ==
  (last.op \in {"track", "get", "get_all"} /\ last.load # "Ok") =>
    IF last.op = "get_all" /\ last.load = "DatabaseNotFound"
      THEN last.result = Ok(None)
      ELSE last.result = Err(last.load)

Found(f) ==
  LET tracking_data == try_from_tracking_file(f, "ok")
  IN  {p \in BlockHashes \X Contracts :
         IsSome(get_from(tracking_data, p[1], p[2].name, p[2].byte_code, p[2].args).val)}

CreateEmpties ==
  (last.op = "create_database" /\ IsOk(last.result)) =>
    /\ database_exists(file)
    /\ \A b \in BlockHashes :
         /\ GetAllNow(b) = Ok(None)
         /\ \A c \in Contracts : GetNow(b, c) = Ok(None)

\* createDatabase on a database that earlier track calls had populated.
CreateEmptiesWitness ==
  /\ last.op = "create_database" /\ IsOk(last.result)
  /\ mark.set
  /\ GetNow(mark.block_hash, mark.contract) = Ok(None)

\* name ++ byteCode ++ concat(args)
Concat(contract) == contract.name \o contract.byte_code \o join(contract.args)

\* C8 (collision): two triples with the same concatenation get the same
\* contract key; once both are tracked under one blockHash the chain's bucket
\* holds one record for them, and getRecord with the first triple returns the
\* name and address of the second track.
KeyCollision ==
  /\ \A c1, c2 \in Contracts : Concat(c1) = Concat(c2) => ContractKey(c1) = ContractKey(c2)
  /\ (/\ Tracked /\ mark.set /\ mark.block_hash = last.block_hash
      /\ mark.contract # last.contract
      /\ Concat(mark.contract) = Concat(last.contract)) =>
       /\ GetNow(mark.block_hash, mark.contract)
            = Ok(Some([name |-> last.contract.name, address |-> last.address]))
       /\ Cardinality(DOMAIN GetAllNow(last.block_hash).val[1]
                        \cap {ContractKey(mark.contract), ContractKey(last.contract)}) = 1

\* args ["ab","c"] tracked at A, then ["a","bc"] at B: one record, at B.
KeyCollisionWitness ==
  /\ Tracked /\ mark.set /\ mark.block_hash = last.block_hash
  /\ mark.contract = T1 /\ last.contract = T2
  /\ mark.address = "A" /\ last.address = "B"
  /\ BucketSize(file, last.block_hash) = 1
  /\ GetNow(mark.block_hash, T1) = Ok(Some([name |-> T2.name, address |-> "B"]))

\* The record stored under the keys the marked track derived.
MarkedRecord ==
  LET tracking_data == try_from_tracking_file(file, "ok")
  IN  IF IsOk(tracking_data)
        THEN read(tracking_data.val, <<mark.chain_key, mark.contract_key>>)
        ELSE None

\* C9 (key determinism): the keys derived from the arguments of an earlier
\* track are the keys derived from them now, whatever the database holds,
\* whatever ran in between and whichever tracker asks; so getRecord with
\* those arguments finds the record as long as it is stored.
KeyDeterminism ==
  mark.set =>
    /\ ChainKey(mark.block_hash) = mark.chain_key
    /\ ContractKey(mark.contract) = mark.contract_key
    /\ (last.op = "get" /\ SameAsMark /\ IsSome(MarkedRecord)) =>
         /\ IsOk(last.result)
         /\ IsSome(last.result.val)

\* A record tracked by one tracker, found by the other in a later run.
KeyDeterminismWitness ==
  /\ mark.set /\ mark.self # tracker
  /\ last.op = "get" /\ SameAsMark
  /\ last.result = Ok(Some([name |-> mark.contract.name, address |-> mark.address]))

\* The paths of the document in file f that hold a record.
Stored(f) ==
  LET tracking_data == try_from_tracking_file(f, "ok")
  IN  IF IsOk(tracking_data) THEN Paths(tracking_data.val) ELSE {}

\* C10 (absent entries are not errors): a path comes to hold a record only
\* by a successful track of that pair; and on an existing database every
\* getRecord for a pair whose path holds no record returns None without
\* error, whether the chain key is absent or only the contract key, and every
\* getAllForChain for a chain key under which nothing is stored returns None.
AbsentIsNone ==
  [][LET before == Stored(file)
         asked == <<ChainKey(last'.block_hash), ContractKey(last'.contract)>>
     IN  /\ \A p \in Stored(file') \ before :
              last'.op = "track" /\ IsOk(last'.result) /\ p = asked
         /\ (last'.op = "get" /\ file.exists /\ asked \notin before) =>
              last'.result = Ok(None)
         /\ (last'.op = "get_all" /\ file.exists
             /\ \A p \in before : p[1] # asked[1]) =>
              last'.result = Ok(None)]_vars

\* A lookup of a contract never tracked, in a chain that holds another one.
AbsentIsNoneWitness ==
  /\ last.op = "get" /\ last.result = Ok(None)
  /\ <<ChainKey(last.block_hash), ContractKey(last.contract)>> \notin Stored(file)
  /\ \E p \in Stored(file) : p[1] = ChainKey(last.block_hash)
  /\ GetAllNow(IF last.block_hash = "h1" THEN "h2" ELSE "h1") = Ok(None)

\* C12 (CLI error reporting): the text shown for a CliError is the
\* remediation template for a compilation error of the unsupported-compiler
\* kind, the compiler error's own description for every other compilation
\* error, and "Couldn't set configuration: " followed by the underlying error
\* for a configuration error; cause() is the wrapped error, never None.
CliReporting ==
  Len(cli.out) > 0 =>
    LET shown == cli.out[Len(cli.out)]
        e == cli.error
    IN  /\ (e.variant = "CompilationError" /\ e.error = "UnsupportedStrategy") =>
             shown = Remediation
        /\ (e.variant = "CompilationError" /\ e.error # "UnsupportedStrategy") =>
             shown = ErrorDescription(e.error)
        /\ e.variant = "ConfigurationSetError" =>
             shown = <<"Couldn't set configuration: ">> \o ErrorDisplay(e.error)
        /\ cli.cause = Some(e.error)

\* A configuration error shown after the unsupported-compiler error.
CliReportingWitness ==
  /\ Len(cli.out) = 2
  /\ cli.out[1] = Remediation
  /\ cli.error = [variant |-> "ConfigurationSetError", error |-> "KeyNotString"]
  /\ cli.out[2] = <<"Couldn't set configuration: ", "display of", "KeyNotString">>
  /\ cli.cause = <<"KeyNotString">>

\* The document a track loaded from file f, and the store operation it then
\* called for the chain key bh.
Loaded(f) == try_from_tracking_file(f, "ok").val
StoreCalled(tracking_data, bh) == track_store(track_probe(tracking_data, bh))

\* C13 as claimed (insert or set by the full path): track calls insert
\* exactly when no record exists yet for the (chain key, contract key) pair
\* and set exactly when a record for the pair already exists.
InsertIffNoRecord ==
  [][(last'.op = "track" /\ last'.load = "Ok") =>
       LET bh == ChainKey(last'.block_hash)
           ck == ContractKey(last'.contract)
           tree == Loaded(file)
       IN  (StoreCalled(tree, bh) = "insert") <=> (read(tree, <<bh, ck>>) = None)]_vars

\* C13 as amended (insert or set by the chain key): track probes the chain
\* key alone; it calls insert exactly when the document has no table for the
\* chain key and set exactly when it has one, whether or not that table
\* already holds a record under the contract key; either way the call
\* succeeds and the record is stored under the full path.
InsertIffNoChain ==
  [][(last'.op = "track" /\ last'.load = "Ok") =>
       LET bh == ChainKey(last'.block_hash)
           ck == ContractKey(last'.contract)
           tree == Loaded(file)
       IN  /\ (StoreCalled(tree, bh) = "insert") <=> (read(tree, <<bh>>) = None)
           /\ (StoreCalled(tree, bh) = "set") <=> (read(tree, <<bh>>) # None)
           /\ IsOk(last'.result)
           /\ read(Loaded(file'), <<bh, ck>>)
                = Some(EntryToValue([name |-> last'.contract.name,
                                     address |-> last'.address]))]_vars

\* A first track of Ab in a chain whose table already holds Token: set was
\* called for a pair that had no record.
InsertIffNoChainWitness ==
  /\ Tracked /\ last.contract = T3
  /\ mark.set /\ mark.contract = T1 /\ mark.block_hash = last.block_hash
  /\ BucketSize(file, last.block_hash) = 2
  /\ GetNow(last.block_hash, T3) = Ok(Some([name |-> T3.name, address |-> last.address]))

\* C14 (frame of track): a successful track of pair (c, k) leaves what
\* getRecord returns for every other pair as it was, in the same chain and
\* in every other chain, and leaves what getAllForChain returns for every
\* other chain key as it was; so a record tracked under one blockHash never
\* shows under a blockHash with another chain key.
TrackFrame ==
  [][(last'.op = "track" /\ IsOk(last'.result)) =>
       LET before == try_from_tracking_file(file, "ok")
           after == try_from_tracking_file(file', "ok")
           c == ChainKey(last'.block_hash)
           k == ContractKey(last'.contract)
       IN  /\ \A b \in BlockHashes, t \in Contracts :
                <<ChainKey(b), ContractKey(t)>> # <<c, k>> =>
                  get_from(after, b, t.name, t.byte_code, t.args)
                    = get_from(before, b, t.name, t.byte_code, t.args)
           /\ \A b \in BlockHashes :
                ChainKey(b) # c => get_all_from(after, b) = get_all_from(before, b)]_vars

\* One contract tracked under two block hashes at two addresses: the earlier
\* record is still the one returned for the earlier block hash.
TrackFrameWitness ==
  /\ Tracked /\ mark.set
  /\ mark.block_hash # last.block_hash /\ mark.contract = last.contract
  /\ mark.address # last.address
  /\ GetNow(mark.block_hash, mark.contract)
       = Ok(Some([name |-> mark.contract.name, address |-> mark.address]))
  /\ BucketSize(file, mark.block_hash) = 2
  /\ BucketSize(file, last.block_hash) = 1

\* C15 (no InsertionError): on an existing well-formed database the store
\* operation track calls has its precondition: insert is called only when
\* the final segment holds no value, set only when the chain's table exists;
\* so track does not fail with InsertionError, for a chain key not yet
\* present and for one present with or without the contract key.
NoInsertionError ==
  [][(last'.op = "track" /\ last'.load = "Ok") =>
       LET bh == ChainKey(last'.block_hash)
           ck == ContractKey(last'.contract)
           tree == Loaded(file)
       IN  /\ StoreCalled(tree, bh) = "insert" => read(tree, <<bh, ck>>) = None
           /\ StoreCalled(tree, bh) = "set" => read(tree, <<bh>>) # None
           /\ last'.result.err # "Insertion"]_vars

\* A second track of a pair, in a chain that holds another contract too.
NoInsertionErrorWitness ==
  /\ Tracked /\ SameAsMark /\ last.address # mark.address
  /\ BucketSize(file, last.block_hash) = 2
  /\ last.result = Ok(<< >>)

\* C16 (only createDatabase creates): the project starts without a backing
\* file; the file comes into existence only by a createDatabase that
\* succeeds, which always leaves it existing; no other call, a track failing
\* with DatabaseNotFound included, creates it and no call removes it; and
\* databaseExists returns whether the file is there.
OnlyCreateCreates ==
  /\ ~file.exists
  /\ [][/\ file'.exists # file.exists =>
             (file'.exists /\ last'.op = "create_database" /\ IsOk(last'.result))
        /\ (last'.op = "create_database" /\ IsOk(last'.result)) => file'.exists
        /\ (last'.op = "track" /\ last'.result = Err("DatabaseNotFound")) =>
             (~file.exists /\ ~file'.exists)
        /\ last'.op = "database_exists" => last'.result = Ok(<<file.exists>>)]_vars

\* A track that failed with DatabaseNotFound and left no file behind.
OnlyCreateCreatesWitness ==
  /\ last.op = "track" /\ last.result = Err("DatabaseNotFound")
  /\ ~database_exists(file)

\* C17 (queries are read-only): databaseExists, getRecord and
\* getAllForChain leave the backing file, its existence and its contents, as
\* it was, whether they return a value, None or an error.
QueriesReadOnly ==
  [][last'.op \in {"database_exists", "get", "get_all"} => file' = file]_vars

\* A lookup that failed on a malformed file, which is still there as it was.
QueriesReadOnlyWitness ==
  /\ last.op = "get" /\ last.result = Err("Format")
  /\ file = Existing(<<Garbage>>)

\* The text holds a table for the pair of block hash and contract.
InText(text, block_hash, contract) ==
  \E i \in 1..Len(text) :
    /\ text[i].chain = ChainKey(block_hash)
    /\ text[i].contract = ContractKey(contract)

\* Caller p's track has returned Ok(()) after racing the other caller's: both
\* had loaded the file before either rewrote it.
RacedOk(p) == procs[p].pc = "done" /\ procs[p].raced /\ IsOk(procs[p].result)

\* C11 (lost update): track holds no lock over its load, change and
\* rewrite; when two track calls for different pairs, neither of them in the
\* document yet, both load the document before either rewrites it, both
\* return Ok and the document never holds both records afterwards: the
\* rewrite that comes last drops the other call's record.
LostUpdate ==
  \A p, q \in Procs :
    (/\ p # q /\ RacedOk(p) /\ RacedOk(q)
     /\ ContractKey(procs[p].contract) # ContractKey(procs[q].contract)
     /\ ~InText(procs[p].seen, procs[p].block_hash, procs[q].contract)
     /\ ~InText(procs[q].seen, procs[q].block_hash, procs[p].contract)
     /\ ~InText(procs[p].seen, procs[p].block_hash, procs[p].contract)
     /\ ~InText(procs[q].seen, procs[q].block_hash, procs[q].contract)) =>
      ~(/\ IsSome(GetNow(procs[p].block_hash, procs[p].contract).val)
        /\ IsSome(GetNow(procs[q].block_hash, procs[q].contract).val))

\* Both callers loaded the empty database, p1 tracked Token and p2 tracked Ab,
\* both returned Ok, and the document holds Ab alone.
LostUpdateWitness ==
  /\ RacedOk("p1") /\ RacedOk("p2")
  /\ procs["p1"].contract = T1 /\ procs["p2"].contract = T3
  /\ procs["p1"].seen = << >> /\ procs["p2"].seen = << >>
  /\ GetNow("h1", T1) = Ok(None)
  /\ GetNow("h1", T3) = Ok(Some([name |-> T3.name, address |-> "A"]))
  /\ BucketSize(file, "h1") = 1

\* C18 (the rewrite is not atomic): write truncates the file and then
\* writes the new text; after the truncation of a track and before its
\* write_all the file exists and is empty, and getRecord and getAllForChain
\* return None for every pair, the pairs the document held included.
TornRewrite ==
  [][(\E p \in Procs : procs[p].pc = "loaded" /\ procs'[p].pc = "truncated") =>
       LET torn == try_from_tracking_file(file', "ok")
       IN  /\ file' = Existing(<< >>)
           /\ \A c \in {T1, T3} :
                get_from(torn, "h1", c.name, c.byte_code, c.args) = Ok(None)
           /\ get_all_from(torn, "h1") = Ok(None)]_vars

\* Token was tracked; a later track of Ab has truncated the file and not yet
\* written the text that holds both, and a lookup of Token returned None.
TornRewriteWitness ==
  \E p \in Procs :
    /\ procs[p].pc = "truncated"
    /\ \A q \in Procs \ {p} : procs[q].pc = "idle"
    /\ mark.set /\ mark.contract = T1 /\ procs[p].contract = T3
    /\ InText(procs[p].seen, mark.block_hash, mark.contract)
    /\ InText(procs[p].pending, mark.block_hash, mark.contract)
    /\ last.op = "get" /\ last.contract = T1 /\ last.result = Ok(None)
    /\ file = Existing(<< >>)

====
